---- MODULE Spec2Model ----
(***************************************************************************)
(* A model of build.py: the book build of main() (subject parsing, the     *)
(* per-subject generation steps, assembly and rendering), and the text     *)
(* helpers it relies on (strip_trailing_commas, fill, extract_pages, the   *)
(* pydyf shims).                                                           *)
(*                                                                         *)
(* Text is modelled as a sequence of one-character strings where the code  *)
(* works on characters (strip_trailing_commas, fill) and as a sequence of  *)
(* markup tokens where it matches whole literals (extract_pages).          *)
(***************************************************************************)
EXTENDS Integers, Sequences, FiniteSets, TLC

VARIABLES
    file,           \* subjects.txt: [exists, lines]
    env_token,      \* whether GITHUB_TOKEN is set in the environment
    Stream,         \* pydyf.Stream's attributes transform and text_matrix
    ops,            \* the operators written to a pydyf stream by calls
    pc,             \* main()'s position
    error,          \* the exception that ended main(), "" if none
    subjects,       \* main(): subjects
    idx,            \* main(): idx of the for loop
    kind,           \* the content kind of the step in progress
    unit_number,    \* main(): unit_number
    review_number,  \* main(): review_number
    unit_range,     \* main(): unit_range
    completed,      \* main(): completed (the progress counter of step())
    steps,          \* the arguments of every prompt built so far
    posts,          \* the number of requests.post calls made
    raw,            \* the backend's response of the step in progress
    html,           \* the markup built in the step in progress
    pages,          \* main(): pages
    book_html,      \* the content of the file book.html, <<>> if not written
    pdf,            \* the content the output PDF was rendered from
    fn,             \* a helper called on its own: its name, "" before the call
    input,          \* the arguments of that call
    output          \* the value it returned

vars == <<file, env_token, Stream, ops, pc, error, subjects, idx, kind,
          unit_number, review_number, unit_range, completed, steps, posts,
          raw, html, pages, book_html, pdf, fn, input, output>>

(***************************************************************************)
(* Bounds                                                                  *)
(***************************************************************************)
MaxLines == 4

(***************************************************************************)
(* Generic helpers                                                         *)
(***************************************************************************)
Min(a, b) == IF a < b THEN a ELSE b
Max(a, b) == IF a > b THEN a ELSE b

IsPrefix(s, t) == Len(s) <= Len(t) /\ SubSeq(t, 1, Len(s)) = s

RECURSIVE Flatten(_)
Flatten(ss) == IF ss = <<>> THEN <<>> ELSE Head(ss) \o Flatten(Tail(ss))

\* Python's s[a:b] for a list s (0-based, b exclusive, negative from the end).
PySlice(s, a, b) ==
    LET n  == Len(s)
        lo == IF a < 0 THEN Max(a + n, 0) ELSE Min(a, n)
        hi == IF b < 0 THEN Max(b + n, 0) ELSE Min(b, n)
    IN  SubSeq(s, lo + 1, hi)

(***************************************************************************)
(* subjects.txt and parse_subjects                                         *)
(*                                                                         *)
(* A line is the tuple of its "|"-separated, stripped fields; the fourth   *)
(* field is the tuple of its ","-separated, stripped topics.               *)
(***************************************************************************)
BlankLine == <<"">>
CommentLine == <<"#">>
BadLine == <<"B1", "Title", "Perfekt">>
ValidLine(i) == <<"B1", "T" \o ToString(i), "G" \o ToString(i),
                  <<"t" \o ToString(i), "">> >>

LineAt(c, i) ==
    CASE c = "blank" -> BlankLine
      [] c = "comment" -> CommentLine
      [] c = "bad" -> BadLine
      [] OTHER -> ValidLine(i)

LineKinds == {"blank", "comment", "bad", "valid"}

\* The subject files of at most MaxLines lines.
Files ==
    {[exists |-> FALSE, lines |-> <<>>]} \cup
    UNION {{[exists |-> TRUE, lines |-> [i \in 1..n |-> LineAt(c[i], i)]] :
               c \in [1..n -> LineKinds]} : n \in 0..MaxLines}

Skipped(line) == (Len(line) = 1 /\ line[1] = "") \/ line[1] = "#"

Subject(parts) ==
    [level |-> parts[1], unit_title |-> parts[2], grammar_focus |-> parts[3],
     vocab_topics |-> SelectSeq(parts[4], LAMBDA t : t # "")]

RECURSIVE ParseLines(_, _, _)
ParseLines(lines, i, acc) ==
    IF i > Len(lines)
    THEN IF acc = <<>>
         THEN [exit |-> "subjects.txt has no valid lines", subjects |-> <<>>]
         ELSE [exit |-> "", subjects |-> acc]
    ELSE IF Skipped(lines[i]) THEN ParseLines(lines, i + 1, acc)
    ELSE IF Len(lines[i]) < 4
         THEN [exit |-> "Bad line", subjects |-> <<>>]
         ELSE ParseLines(lines, i + 1, Append(acc, Subject(lines[i])))

parse_subjects(f) ==
    IF ~f.exists
    THEN [exit |-> "subjects.txt not found", subjects |-> <<>>]
    ELSE ParseLines(f.lines, 1, <<>>)

(***************************************************************************)
(* Page markup.  Tokens: "P" is <section class="page">, "S" any other      *)
(* <section ...> tag, "E" is </section>, anything else is text.            *)
(***************************************************************************)
\* re.findall(r"<section class=\"page\">.*?</section>", html, re.S): from
\* position i, the next "P" and the first "E" after it; the search goes on
\* after that "E".
RECURSIVE FirstAt(_, _, _)
FirstAt(s, t, i) ==
    IF i > Len(s) THEN 0 ELSE IF s[i] = t THEN i ELSE FirstAt(s, t, i + 1)

RECURSIVE FindAll(_, _)
FindAll(s, i) ==
    LET p == FirstAt(s, "P", i)
        e == IF p = 0 THEN 0 ELSE FirstAt(s, "E", p + 1)
    IN  IF p = 0 \/ e = 0 THEN <<>>
        ELSE <<SubSeq(s, p, e)>> \o FindAll(s, e + 1)

extract_pages(h) == FindAll(h, 1)

\* The pages of the four templates: units are "Page 1" and "Pages 2-3",
\* review_1page.html, final_review_3page.html.
TemplatePages(k) == IF k = "MiniReview" THEN 1 ELSE 3

\* build_vocab_unit, build_grammar_unit, build_mini_review, build_big_review
\* on the data of step n: the template's pages, filled.
build(k, n) ==
    Flatten([j \in 1..TemplatePages(k) |->
                <<"P", ToString(n) \o "." \o ToString(j), "E", "\n">>])

\* "\n".join(pages)
RECURSIVE JoinPages(_)
JoinPages(ps) ==
    IF ps = <<>> THEN <<>>
    ELSE IF Len(ps) = 1 THEN ps[1]
    ELSE ps[1] \o <<"\n">> \o JoinPages(Tail(ps))

assemble_book(ps) == <<"head", "\n">> \o JoinPages(ps) \o <<"tail">>

(***************************************************************************)
(* pydyf compatibility shims                                               *)
(***************************************************************************)
hasattr(S, a) == S[a] # "absent"

\* ensure_pydyf_transform without the hasattr test
ensure_pydyf_transform_Override(S) == [S EXCEPT !.transform = "_transform"]

ensure_pydyf_transform(S) ==
    IF hasattr(S, "transform") THEN S ELSE [S EXCEPT !.transform = "_transform"]

ensure_pydyf_text_matrix(S) ==
    IF hasattr(S, "text_matrix") THEN S
    ELSE [S EXCEPT !.text_matrix = "_text_matrix"]

Engines == [transform : {"absent", "native"}, text_matrix : {"absent", "native"}]

\* The parameters a=1, b=0, c=0, d=1, e=0, f=0 bound to positional arguments.
Defaults == <<1, 0, 0, 1, 0, 0>>

Bind(args) == [i \in 1..6 |-> IF i <= Len(args) THEN args[i] ELSE Defaults[i]]

\* self.set_matrix(a, b, c, d, e, f)
_transform(self, args) == Append(self, <<"set_matrix", Bind(args)>>)

\* self.set_text_matrix(a, b, c, d, e, f)
_text_matrix(self, args) == Append(self, <<"set_text_matrix", Bind(args)>>)

\* stream.transform(*args) and stream.text_matrix(*args): the shim if it is
\* the attribute, else the engine's own primitive.
transform(self, args) ==
    IF Stream.transform = "_transform" THEN _transform(self, args)
    ELSE Append(self, <<"transform", Bind(args)>>)

text_matrix(self, args) ==
    IF Stream.text_matrix = "_text_matrix" THEN _text_matrix(self, args)
    ELSE Append(self, <<"text_matrix", Bind(args)>>)

(***************************************************************************)
(* main()                                                                  *)
(***************************************************************************)
\* Raise with the exception caught and the book assembled from the pages so far
Raise_Swallowed(exc) ==
    /\ pc' = "assemble"
    /\ error' = exc

\* Nothing in main() catches an exception: it ends the run.
Raise(exc) ==
    /\ pc' = "raised"
    /\ error' = exc

\* f"Units {a}-{b}" (the dash is U+2013 in the source)
UnitRange(a, b) == "Units " \o ToString(a) \o "-" \o ToString(b)

\* MiniReviewDue with the parity test inverted
MiniReviewDue_Odd(i) == i % 2 = 1

MiniReviewDue(i) == i % 2 = 0

total_steps == Len(subjects) * 2 + (Len(subjects) \div 2) + 1

MainInit ==
    /\ file \in Files
    /\ env_token \in BOOLEAN
    /\ pc = "parse_subjects"
    /\ error = ""
    /\ subjects = <<>>
    /\ idx = 0
    /\ kind = ""
    /\ unit_number = 1
    /\ review_number = 1
    /\ unit_range = ""
    /\ completed = 0
    /\ steps = <<>>
    /\ posts = 0
    /\ raw = ""
    /\ html = <<>>
    /\ pages = <<>>
    /\ book_html = <<>>
    /\ pdf = <<>>

HelpersIdle == fn = "" /\ input = <<>> /\ output = <<>>

Init ==
    /\ MainInit
    /\ Stream \in Engines
    /\ ops = <<>>
    /\ HelpersIdle

\* subjects = parse_subjects(SUBJECTS_FILE), and the initialisation
ParseSubjects ==
    /\ pc = "parse_subjects"
    /\ LET r == parse_subjects(file)
       IN  IF r.exit # ""
           THEN /\ pc' = "exit"
                /\ error' = r.exit
                /\ UNCHANGED subjects
           ELSE /\ pc' = "for"
                /\ subjects' = r.subjects
                /\ UNCHANGED error
    /\ UNCHANGED <<file, env_token, Stream, ops, idx, kind, unit_number,
                   review_number, unit_range, completed, steps, posts, raw,
                   html, pages, book_html, pdf, fn, input, output>>

\* for idx, unit in enumerate(subjects, 1); after it, the final review
ForNext ==
    /\ pc = "for"
    /\ IF idx < Len(subjects)
       THEN /\ idx' = idx + 1
            /\ kind' = "Vocabulary"
            /\ UNCHANGED unit_range
       ELSE /\ kind' = "FinalReview"
            /\ unit_range' = UnitRange(1, Len(subjects))
            /\ UNCHANGED idx
    /\ pc' = "step"
    /\ UNCHANGED <<file, env_token, Stream, ops, error, subjects, unit_number,
                   review_number, completed, steps, posts, raw, html, pages,
                   book_html, pdf, fn, input, output>>

\* step(msg)
Step ==
    /\ pc = "step"
    /\ completed' = completed + 1
    /\ pc' = "prompt"
    /\ UNCHANGED <<file, env_token, Stream, ops, error, subjects, idx, kind,
                   unit_number, review_number, unit_range, steps, posts, raw,
                   html, pages, book_html, pdf, fn, input, output>>

\* PromptArgs with the mini-review's slice one subject too far
PromptArgs_WrongSlice ==
    CASE kind \in {"Vocabulary", "Grammar"} ->
            [kind |-> kind, number |-> unit_number, unit_range |-> "",
             units |-> <<subjects[idx]>>]
      [] kind = "MiniReview" ->
            [kind |-> kind, number |-> review_number, unit_range |-> unit_range,
             units |-> PySlice(subjects, idx - 1, idx + 1)]
      [] OTHER ->
            [kind |-> kind, number |-> 0, unit_range |-> unit_range,
             units |-> subjects]

\* The arguments of vocab_prompt, grammar_prompt, mini_review_prompt and
\* big_review_prompt.
PromptArgs ==
    CASE kind \in {"Vocabulary", "Grammar"} ->
            [kind |-> kind, number |-> unit_number, unit_range |-> "",
             units |-> <<subjects[idx]>>]
      [] kind = "MiniReview" ->
            [kind |-> kind, number |-> review_number, unit_range |-> unit_range,
             units |-> PySlice(subjects, idx - 2, idx)]
      [] OTHER ->
            [kind |-> kind, number |-> 0, unit_range |-> unit_range,
             units |-> subjects]

Prompt ==
    /\ pc = "prompt"
    /\ steps' = Append(steps, PromptArgs)
    /\ pc' = "llm"
    /\ UNCHANGED <<file, env_token, Stream, ops, error, subjects, idx, kind,
                   unit_number, review_number, unit_range, completed, posts,
                   raw, html, pages, book_html, pdf, fn, input, output>>

\* llm(prompt): call_github_models
Llm ==
    /\ pc = "llm"
    /\ IF ~env_token
       THEN /\ pc' = "exit"
            /\ error' = "Set GITHUB_TOKEN"
            /\ UNCHANGED <<posts, raw>>
       ELSE /\ posts' = posts + 1
            /\ \/ /\ Raise("RequestException")
                  /\ UNCHANGED raw
               \/ /\ raw' \in {"ok", "not json", "field missing"}
                  /\ pc' = "json"
                  /\ UNCHANGED error
    /\ UNCHANGED <<file, env_token, Stream, ops, subjects, idx, kind,
                   unit_number, review_number, unit_range, completed, steps,
                   html, pages, book_html, pdf, fn, input, output>>

\* json.loads(strip_trailing_commas(strip_code_fences(...)))
JsonLoads ==
    /\ pc = "json"
    /\ IF raw = "not json"
       THEN Raise("JSONDecodeError")
       ELSE pc' = "build" /\ UNCHANGED error
    /\ UNCHANGED <<file, env_token, Stream, ops, subjects, idx, kind,
                   unit_number, review_number, unit_range, completed, steps,
                   posts, raw, html, pages, book_html, pdf, fn, input, output>>

\* build_*(data): data["..."] raises KeyError on a missing field
Build ==
    /\ pc = "build"
    /\ IF raw = "field missing"
       THEN Raise("KeyError") /\ UNCHANGED html
       ELSE /\ html' = build(kind, completed)
            /\ pc' = "extract"
            /\ UNCHANGED error
    /\ UNCHANGED <<file, env_token, Stream, ops, subjects, idx, kind,
                   unit_number, review_number, unit_range, completed, steps,
                   posts, raw, pages, book_html, pdf, fn, input, output>>

\* Extend with pages assigned the step's fragments instead of extended by them
Extend_Assign ==
    /\ pc = "extract"
    /\ pages' = extract_pages(html)
    /\ CASE kind = "Vocabulary" -> kind' = "Grammar" /\ pc' = "step"
         [] kind = "Grammar" -> pc' = "if_mini" /\ UNCHANGED kind
         [] kind = "MiniReview" -> pc' = "inc_review" /\ UNCHANGED kind
         [] OTHER -> pc' = "assemble" /\ UNCHANGED kind
    /\ UNCHANGED <<file, env_token, Stream, ops, error, subjects, idx,
                   unit_number, review_number, unit_range, completed, steps,
                   posts, raw, html, book_html, pdf, fn, input, output>>

\* pages.extend(extract_pages(html))
Extend ==
    /\ pc = "extract"
    /\ pages' = pages \o extract_pages(html)
    /\ CASE kind = "Vocabulary" -> kind' = "Grammar" /\ pc' = "step"
         [] kind = "Grammar" -> pc' = "if_mini" /\ UNCHANGED kind
         [] kind = "MiniReview" -> pc' = "inc_review" /\ UNCHANGED kind
         [] OTHER -> pc' = "assemble" /\ UNCHANGED kind
    /\ UNCHANGED <<file, env_token, Stream, ops, error, subjects, idx,
                   unit_number, review_number, unit_range, completed, steps,
                   posts, raw, html, book_html, pdf, fn, input, output>>

\* if idx % 2 == 0: unit_range = ...
IfMini ==
    /\ pc = "if_mini"
    /\ IF MiniReviewDue(idx)
       THEN /\ unit_range' = UnitRange(idx - 1, idx)
            /\ kind' = "MiniReview"
            /\ pc' = "step"
       ELSE /\ pc' = "inc_unit"
            /\ UNCHANGED <<unit_range, kind>>
    /\ UNCHANGED <<file, env_token, Stream, ops, error, subjects, idx,
                   unit_number, review_number, completed, steps, posts, raw,
                   html, pages, book_html, pdf, fn, input, output>>

\* IncReview without the increment
IncReview_Skip ==
    /\ pc = "inc_review"
    /\ pc' = "inc_unit"
    /\ UNCHANGED <<file, env_token, Stream, ops, error, subjects, idx, kind,
                   unit_number, review_number, unit_range, completed, steps,
                   posts, raw, html, pages, book_html, pdf, fn, input, output>>

\* review_number += 1
IncReview ==
    /\ pc = "inc_review"
    /\ review_number' = review_number + 1
    /\ pc' = "inc_unit"
    /\ UNCHANGED <<file, env_token, Stream, ops, error, subjects, idx, kind,
                   unit_number, unit_range, completed, steps, posts, raw, html,
                   pages, book_html, pdf, fn, input, output>>

\* unit_number += 1
IncUnit ==
    /\ pc = "inc_unit"
    /\ unit_number' = unit_number + 1
    /\ pc' = "for"
    /\ UNCHANGED <<file, env_token, Stream, ops, error, subjects, idx, kind,
                   review_number, unit_range, completed, steps, posts, raw,
                   html, pages, book_html, pdf, fn, input, output>>

\* AssembleSave without the save
AssembleSave_NoSave ==
    /\ pc = "assemble"
    /\ pc' = "ensure_transform"
    /\ UNCHANGED <<file, env_token, Stream, ops, error, subjects, idx, kind,
                   unit_number, review_number, unit_range, completed, steps,
                   posts, raw, html, pages, book_html, pdf, fn, input, output>>

\* book_html = assemble_book(pages); save(BOOK_HTML, book_html)
AssembleSave ==
    /\ pc = "assemble"
    /\ book_html' = assemble_book(pages)
    /\ pc' = "ensure_transform"
    /\ UNCHANGED <<file, env_token, Stream, ops, error, subjects, idx, kind,
                   unit_number, review_number, unit_range, completed, steps,
                   posts, raw, html, pages, pdf, fn, input, output>>

EnsureTransform ==
    /\ pc = "ensure_transform"
    /\ Stream' = ensure_pydyf_transform(Stream)
    /\ pc' = "ensure_text_matrix"
    /\ UNCHANGED <<file, env_token, ops, error, subjects, idx, kind,
                   unit_number, review_number, unit_range, completed, steps,
                   posts, raw, html, pages, book_html, pdf, fn, input, output>>

EnsureTextMatrix ==
    /\ pc = "ensure_text_matrix"
    /\ Stream' = ensure_pydyf_text_matrix(Stream)
    /\ pc' = "write_pdf"
    /\ UNCHANGED <<file, env_token, ops, error, subjects, idx, kind,
                   unit_number, review_number, unit_range, completed, steps,
                   posts, raw, html, pages, book_html, pdf, fn, input, output>>

\* HTML(filename=BOOK_HTML).write_pdf(output_pdf): renders the file, or raises
WritePdf ==
    /\ pc = "write_pdf"
    /\ \/ /\ pdf' = book_html
          /\ pc' = "done"
          /\ UNCHANGED error
       \/ /\ Raise("RenderError")
          /\ UNCHANGED pdf
    /\ UNCHANGED <<file, env_token, Stream, ops, subjects, idx, kind,
                   unit_number, review_number, unit_range, completed, steps,
                   posts, raw, html, pages, book_html, fn, input, output>>

Next ==
    \/ ParseSubjects
    \/ ForNext
    \/ Step
    \/ Prompt
    \/ Llm
    \/ JsonLoads
    \/ Build
    \/ Extend
    \/ IfMini
    \/ IncReview
    \/ IncUnit
    \/ AssembleSave
    \/ EnsureTransform
    \/ EnsureTextMatrix
    \/ WritePdf

Spec == Init /\ [][Next]_vars

(***************************************************************************)
(* strip_trailing_commas                                                   *)
(***************************************************************************)
Whitespace == {" ", "\n", "\t"}

\* The first position from j on that holds no whitespace (\s*); Len(s) + 1
\* if there is none.
RECURSIVE SkipSpace(_, _)
SkipSpace(s, j) ==
    IF j <= Len(s) /\ s[j] \in Whitespace THEN SkipSpace(s, j + 1) ELSE j

\* re.sub(r",\s*([\]\}])", r"\1", s) from position i on: a comma, any
\* whitespace and a closing bracket are replaced by the bracket, and the
\* search goes on after the bracket.
RECURSIVE SubFrom(_, _)
SubFrom(s, i) ==
    IF i > Len(s) THEN <<>>
    ELSE LET j == SkipSpace(s, i + 1)
         IN  IF s[i] = "," /\ j <= Len(s) /\ s[j] \in {"]", "}"}
             THEN <<s[j]>> \o SubFrom(s, j + 1)
             ELSE <<s[i]>> \o SubFrom(s, i + 1)

strip_trailing_commas(s) == SubFrom(s, 1)

(***************************************************************************)
(* fill                                                                    *)
(***************************************************************************)
\* "{{" + k + "}}"
Placeholder(k) == <<"{", "{">> \o k \o <<"}", "}">>

StartsWith(s, old) == Len(old) <= Len(s) /\ SubSeq(s, 1, Len(old)) = old

\* str.replace(old, new), old not empty: every occurrence of old, leftmost
\* first and not overlapping, becomes new.
RECURSIVE Replace(_, _, _)
Replace(s, old, new) ==
    IF Len(s) < Len(old) THEN s
    ELSE IF StartsWith(s, old)
         THEN new \o Replace(SubSeq(s, Len(old) + 1, Len(s)), old, new)
         ELSE <<Head(s)>> \o Replace(Tail(s), old, new)

\* mapping is the tuple of the dict's items, <<k, v>>, in iteration order.
RECURSIVE fill(_, _)
fill(template, mapping) ==
    IF mapping = <<>> THEN template
    ELSE fill(Replace(template, Placeholder(mapping[1][1]), mapping[1][2]),
              Tail(mapping))

(***************************************************************************)
(* The helpers, each applied once to an argument of a bounded set          *)
(***************************************************************************)
MaxText == 5
MaxPieces == 3
MaxTokens == 5
MaxOps == 2

\* main() is not running.
MainIdle ==
    /\ file = [exists |-> FALSE, lines |-> <<>>]
    /\ env_token = FALSE
    /\ pc = "idle"
    /\ error = ""
    /\ subjects = <<>>
    /\ idx = 0
    /\ kind = ""
    /\ unit_number = 1
    /\ review_number = 1
    /\ unit_range = ""
    /\ completed = 0
    /\ steps = <<>>
    /\ posts = 0
    /\ raw = ""
    /\ html = <<>>
    /\ pages = <<>>
    /\ book_html = <<>>
    /\ pdf = <<>>

mainVars == <<file, env_token, pc, error, subjects, idx, kind, unit_number,
              review_number, unit_range, completed, steps, posts, raw, html,
              pages, book_html, pdf>>

NativeEngine == [transform |-> "native", text_matrix |-> "native"]

SeqsUpTo(S, n) == UNION {[1..k -> S] : k \in 0..n}

\* ---- strip_trailing_commas ----
JsonChars == {"\"", ",", " ", "]", "}", "x"}

InitCommas ==
    /\ MainIdle
    /\ Stream = NativeEngine
    /\ ops = <<>>
    /\ fn = ""
    /\ input \in SeqsUpTo(JsonChars, MaxText)
    /\ output = <<>>

CallStripTrailingCommas ==
    /\ fn = ""
    /\ fn' = "strip_trailing_commas"
    /\ output' = strip_trailing_commas(input)
    /\ UNCHANGED <<mainVars, Stream, ops, input>>

SpecCommas == InitCommas /\ [][CallStripTrailingCommas]_vars

\* ---- fill ----
Keys == {<<"a">>, <<"b">>}

Pieces == {Placeholder(<<"a">>), Placeholder(<<"b">>), <<"x">>, <<"{">>}

Values == {<<>>, <<"v">>, Placeholder(<<"a">>), Placeholder(<<"b">>)}

Templates == {Flatten(ps) : ps \in SeqsUpTo(Pieces, MaxPieces)}

\* The dicts over Keys, as the tuples of their items in iteration order.
Mappings ==
    {m \in SeqsUpTo(Keys \X Values, Cardinality(Keys)) :
        \A i, j \in 1..Len(m) : i # j => m[i][1] # m[j][1]}

InitFill ==
    /\ MainIdle
    /\ Stream = NativeEngine
    /\ ops = <<>>
    /\ fn = ""
    /\ input \in [template : Templates, mapping : Mappings]
    /\ output = <<>>

CallFill ==
    /\ fn = ""
    /\ fn' = "fill"
    /\ output' = fill(input.template, input.mapping)
    /\ UNCHANGED <<mainVars, Stream, ops, input>>

SpecFill == InitFill /\ [][CallFill]_vars

\* ---- extract_pages ----
Tokens == {"P", "S", "E", "t"}

InitPages ==
    /\ MainIdle
    /\ Stream = NativeEngine
    /\ ops = <<>>
    /\ fn = ""
    /\ input \in SeqsUpTo(Tokens, MaxTokens)
    /\ output = <<>>

CallExtractPages ==
    /\ fn = ""
    /\ fn' = "extract_pages"
    /\ output' = extract_pages(input)
    /\ UNCHANGED <<mainVars, Stream, ops, input>>

SpecPages == InitPages /\ [][CallExtractPages]_vars


\* ---- the pydyf shims ----
CallArgs == {<<>>, <<2, 3>>, <<1, 2, 3, 4, 5, 6>>}

InitShims ==
    /\ MainIdle
    /\ Stream \in Engines
    /\ ops = <<>>
    /\ HelpersIdle

InstallTransform ==
    /\ Stream' = ensure_pydyf_transform(Stream)
    /\ fn' = "ensure_pydyf_transform"
    /\ input' = <<>>
    /\ UNCHANGED <<mainVars, ops, output>>

InstallTextMatrix ==
    /\ Stream' = ensure_pydyf_text_matrix(Stream)
    /\ fn' = "ensure_pydyf_text_matrix"
    /\ input' = <<>>
    /\ UNCHANGED <<mainVars, ops, output>>

CallTransform ==
    /\ hasattr(Stream, "transform")
    /\ Len(ops) < MaxOps
    /\ \E args \in CallArgs :
          /\ ops' = transform(ops, args)
          /\ input' = args
    /\ fn' = "transform"
    /\ UNCHANGED <<mainVars, Stream, output>>

CallTextMatrix ==
    /\ hasattr(Stream, "text_matrix")
    /\ Len(ops) < MaxOps
    /\ \E args \in CallArgs :
          /\ ops' = text_matrix(ops, args)
          /\ input' = args
    /\ fn' = "text_matrix"
    /\ UNCHANGED <<mainVars, Stream, output>>

NextShims ==
    \/ InstallTransform
    \/ InstallTextMatrix
    \/ CallTransform
    \/ CallTextMatrix

SpecShims == InitShims /\ [][NextShims]_vars

(***************************************************************************)
(* Claims about main()                                                     *)
(***************************************************************************)
GenErrors == {"RequestException", "JSONDecodeError", "KeyError"}

\* main() is past the final review's pages.extend
Generated ==
    \/ pc \in {"assemble", "ensure_transform", "ensure_text_matrix",
               "write_pdf", "done"}
    \/ error = "RenderError"

\* The steps of a book of the subjects subs[1..i], mini-reviews included.
RECURSIVE ExpectedUnits(_, _)
ExpectedUnits(subs, i) ==
    IF i = 0 THEN <<>>
    ELSE ExpectedUnits(subs, i - 1)
         \o << <<"Vocabulary", <<subs[i]>> >>, <<"Grammar", <<subs[i]>> >> >>
         \o (IF i % 2 = 0 THEN << <<"MiniReview">> >> ELSE <<>>)

ExpectedRun(subs) == ExpectedUnits(subs, Len(subs)) \o << <<"FinalReview">> >>

StepView(s) ==
    IF s.kind \in {"Vocabulary", "Grammar"} THEN <<s.kind, s.units>>
    ELSE <<s.kind>>

StepsView == [k \in 1..Len(steps) |-> StepView(steps[k])]

\* C1: the steps run are, in input order, Vocabulary then Grammar of each
\* subject, a Mini-Review after each even subject, and one Final-Review
\* last: at every moment a prefix of that sequence (no step twice, none
\* skipped), and once generation is over the whole of it, 2N + N/2 + 1 steps.
C1_StepSequence ==
    /\ IsPrefix(StepsView, ExpectedRun(subjects))
    /\ Len(steps) <= completed
    /\ completed <= Len(steps) + 1
    /\ Generated =>
          /\ Len(subjects) >= 1
          /\ StepsView = ExpectedRun(subjects)
          /\ Len(steps) = 2 * Len(subjects) + (Len(subjects) \div 2) + 1
          /\ completed = Len(steps)
          /\ completed = total_steps

C1_Witness ==
    /\ pc = "done"
    /\ Len(subjects) = 4
    /\ Len(steps) = 11

SubjectIndex(u) == CHOOSE i \in 1..Len(subjects) : subjects[i] = u

MiniCount(ss) == Cardinality({k \in 1..Len(ss) : ss[k].kind = "MiniReview"})

\* C2: a Mini-Review follows the Grammar step of subject i iff i is even;
\* it is built from subjects i-1 and i and labelled "Units (i-1)-i"; a
\* finished run has N/2 of them and one Final-Review, built from all the
\* subjects and labelled "Units 1-N".
C2_MiniReviews ==
    /\ \A k \in 1..Len(steps) :
          /\ steps[k].kind = "MiniReview" =>
                /\ k > 1
                /\ steps[k - 1].kind = "Grammar"
                /\ LET i == SubjectIndex(steps[k - 1].units[1])
                   IN  /\ i % 2 = 0
                       /\ steps[k].units = <<subjects[i - 1], subjects[i]>>
                       /\ steps[k].unit_range =
                             "Units " \o ToString(i - 1) \o "-" \o ToString(i)
          /\ (steps[k].kind = "Grammar" /\ k < Len(steps)) =>
                (SubjectIndex(steps[k].units[1]) % 2 = 0
                    <=> steps[k + 1].kind = "MiniReview")
          /\ steps[k].kind = "FinalReview" =>
                /\ k = Len(steps)
                /\ steps[k].units = subjects
                /\ steps[k].unit_range =
                      "Units 1-" \o ToString(Len(subjects))
    /\ Generated =>
          /\ MiniCount(steps) = Len(subjects) \div 2
          /\ steps[Len(steps)].kind = "FinalReview"
          /\ Len(subjects) % 2 = 1 =>
                steps[Len(steps) - 1].kind = "Grammar"

C2_Witness ==
    /\ pc = "done"
    /\ Len(subjects) = 3
    /\ MiniCount(steps) = 1
    /\ steps[Len(steps)].unit_range = "Units 1-3"

MiniInProgress ==
    /\ kind = "MiniReview"
    /\ pc \in {"llm", "json", "build", "extract", "inc_review", "raised"}

C3_Numbers ==
    /\ unit_number >= 1
    /\ review_number >= 1
    /\ \A k \in 1..Len(steps) :
          /\ steps[k].kind \in {"Vocabulary", "Grammar"} =>
                steps[k].number = SubjectIndex(steps[k].units[1])
          /\ steps[k].kind = "MiniReview" =>
                steps[k].number = MiniCount(SubSeq(steps, 1, k))
    /\ unit_number =
          IF kind \in {"Vocabulary", "Grammar", "MiniReview"} /\ pc # "for"
          THEN idx ELSE idx + 1
    /\ review_number =
          IF MiniInProgress THEN MiniCount(steps) ELSE MiniCount(steps) + 1

C3_Changes ==
    /\ unit_number' >= unit_number
    /\ review_number' >= review_number
    /\ unit_number' # unit_number =>
          /\ unit_number' = unit_number + 1
          /\ pc = "inc_unit"
          /\ UNCHANGED <<steps, review_number>>
    /\ review_number' # review_number =>
          /\ review_number' = review_number + 1
          /\ steps # <<>>
          /\ steps[Len(steps)].kind = "MiniReview"
          /\ UNCHANGED <<steps, unit_number>>

\* C3: the Vocabulary and the Grammar prompt of subject i get unit_number i,
\* the k-th Mini-Review gets review_number k; unit_number changes once per
\* subject, after the subject's steps, review_number only after a
\* Mini-Review; both start at 1 and never decrease.
C3_Counters == []C3_Numbers /\ [][C3_Changes]_vars

C3_Witness ==
    /\ pc = "done"
    /\ Len(subjects) = 4
    /\ unit_number = 5
    /\ review_number = 3

C4_Stopped == error \in GenErrors => UNCHANGED vars

\* C4: a failed generation step ends the run: one backend call per step
\* begun (none repeated), no later step, book.html not written, no rendering.
C4_FailFast ==
    /\ [](error \in GenErrors =>
            /\ pc = "raised"
            /\ posts = completed
            /\ Len(steps) = completed
            /\ book_html = <<>>
            /\ pdf = <<>>)
    /\ [][C4_Stopped]_vars

C4_Witness ==
    /\ pc = "raised"
    /\ error = "KeyError"
    /\ completed = 3
    /\ pages # <<>>

\* C5: when a configuration error ends the run, no step was announced or
\* counted, no prompt was built and no backend request was made.
C5_ConfigBeforeSteps ==
    pc = "exit" => completed = 0 /\ steps = <<>> /\ posts = 0

RECURSIVE PageCount(_)
PageCount(ss) ==
    IF ss = <<>> THEN 0
    ELSE (IF Head(ss).kind = "MiniReview" THEN 1 ELSE 3) + PageCount(Tail(ss))

\* C6: book.html is written only after the Final-Review's pages were added,
\* it is written before the renderer is called, and it holds the whole
\* assembled document also when rendering fails.
C6_SaveBeforeRender ==
    /\ book_html # <<>> =>
          /\ Generated
          /\ steps[Len(steps)].kind = "FinalReview"
          /\ Len(pages) = PageCount(steps)
          /\ PageCount(steps) >= 6
          /\ book_html = <<"head", "\n">> \o JoinPages(pages) \o <<"tail">>
    /\ (pc \in {"write_pdf", "done"} \/ error = "RenderError") =>
          book_html # <<>>
    /\ pdf # <<>> => pdf = book_html /\ pc = "done"

C6_Witness ==
    /\ error = "RenderError"
    /\ book_html # <<>>
    /\ Len(subjects) = 2
    /\ Len(pages) = 16

(***************************************************************************)
(* Claims about the helpers                                                *)
(***************************************************************************)
EvenQuotes(s) == Cardinality({i \in 1..Len(s) : s[i] = "\""}) % 2 = 0

\* The contents of the string literals of s, in order.
RECURSIVE Literals(_, _, _, _)
Literals(s, i, open, cur) ==
    IF i > Len(s) THEN <<>>
    ELSE IF s[i] = "\""
         THEN IF open THEN <<cur>> \o Literals(s, i + 1, FALSE, <<>>)
              ELSE Literals(s, i + 1, TRUE, <<>>)
         ELSE Literals(s, i + 1, open, IF open THEN Append(cur, s[i]) ELSE cur)

\* s without the commas that, outside string literals, precede a closing
\* bracket.
RECURSIVE StripOutside(_, _, _)
StripOutside(s, i, open) ==
    IF i > Len(s) THEN <<>>
    ELSE LET j == SkipSpace(s, i + 1)
         IN  IF ~open /\ s[i] = "," /\ j <= Len(s) /\ s[j] \in {"]", "}"}
             THEN <<s[j]>> \o StripOutside(s, j + 1, open)
             ELSE <<s[i]>> \o StripOutside(s, i + 1,
                                           IF s[i] = "\"" THEN ~open ELSE open)

\* C7: strip_trailing_commas leaves every string literal as it was, and
\* removes the commas that precede a closing bracket outside string literals.
C7_LiteralsKept ==
    (fn = "strip_trailing_commas" /\ EvenQuotes(input)) =>
        /\ Literals(output, 1, FALSE, <<>>) = Literals(input, 1, FALSE, <<>>)
        /\ output = StripOutside(input, 1, FALSE)

RECURSIVE Occurs(_, _)
Occurs(old, s) ==
    /\ Len(s) >= Len(old)
    /\ (StartsWith(s, old) \/ Occurs(old, Tail(s)))

Declared(template) == {k \in Keys : Occurs(Placeholder(k), template)}

KeysOf(mapping) == {mapping[i][1] : i \in 1..Len(mapping)}

Reverse(m) == [i \in 1..Len(m) |-> m[Len(m) + 1 - i]]

\* template with every placeholder occurrence replaced by its key's value,
\* in one pass over the template: inserted text is not looked at again.
RECURSIVE Substitute(_, _)
Substitute(t, m) ==
    IF t = <<>> THEN <<>>
    ELSE IF \E i \in 1..Len(m) : StartsWith(t, Placeholder(m[i][1]))
         THEN LET i == CHOOSE i \in 1..Len(m) :
                          StartsWith(t, Placeholder(m[i][1]))
              IN  m[i][2] \o Substitute(
                      SubSeq(t, Len(Placeholder(m[i][1])) + 1, Len(t)), m)
         ELSE <<Head(t)>> \o Substitute(Tail(t), m)

\* C8: with a value for every declared placeholder, fill replaces each
\* placeholder occurrence once by its own value (an inserted value is not
\* substituted again) and returns the same markup for every order of the
\* mapping's keys and on a second call; a declared placeholder without an
\* entry does not survive in the returned markup.
C8_FillContract ==
    fn = "fill" =>
        /\ Declared(input.template) \subseteq KeysOf(input.mapping) =>
              /\ output = Substitute(input.template, input.mapping)
              /\ output = fill(input.template, Reverse(input.mapping))
              /\ output = fill(input.template, input.mapping)
        /\ \A k \in Declared(input.template) \ KeysOf(input.mapping) :
              ~Occurs(Placeholder(k), output)

\* Every </section> closes an open section and no section stays open.
RECURSIVE Balanced(_, _, _)
Balanced(h, i, depth) ==
    IF i > Len(h) THEN depth = 0
    ELSE IF h[i] \in {"P", "S"} THEN Balanced(h, i + 1, depth + 1)
    ELSE IF h[i] = "E" THEN depth > 0 /\ Balanced(h, i + 1, depth - 1)
    ELSE Balanced(h, i + 1, depth)

\* The position of the closing tag of the section open at depth `depth`
\* when position i is reached.
RECURSIVE CloseAt(_, _, _)
CloseAt(h, i, depth) ==
    IF i > Len(h) THEN 0
    ELSE IF h[i] \in {"P", "S"} THEN CloseAt(h, i + 1, depth + 1)
    ELSE IF h[i] = "E"
         THEN IF depth = 1 THEN i ELSE CloseAt(h, i + 1, depth - 1)
    ELSE CloseAt(h, i + 1, depth)

\* The page sections of h from position p on, each from its opening marker
\* to its own closing tag, in source order.
RECURSIVE Sections(_, _)
Sections(h, p) ==
    IF p > Len(h) THEN <<>>
    ELSE IF h[p] = "P"
         THEN <<SubSeq(h, p, CloseAt(h, p + 1, 1))>> \o Sections(h, p + 1)
         ELSE Sections(h, p + 1)

\* C9: of a markup with k page sections, extract_pages returns the k
\* sections in source order, each whole, from its opening marker to its own
\* closing tag; none if k = 0.
C9_WholeSections ==
    (fn = "extract_pages" /\ Balanced(input, 1, 0)) =>
        /\ Len(output) = Cardinality({i \in 1..Len(input) : input[i] = "P"})
        /\ output = Sections(input, 1)

C10_Calls ==
    /\ (fn = "transform" /\ Stream.transform = "_transform") =>
          /\ ops # <<>>
          /\ ops[Len(ops)] =
                <<"set_matrix",
                  [i \in 1..6 |-> IF i <= Len(input) THEN input[i]
                                  ELSE <<1, 0, 0, 1, 0, 0>>[i]]>>
    /\ (fn = "text_matrix" /\ Stream.text_matrix = "_text_matrix") =>
          /\ ops # <<>>
          /\ ops[Len(ops)] =
                <<"set_text_matrix",
                  [i \in 1..6 |-> IF i <= Len(input) THEN input[i]
                                  ELSE <<1, 0, 0, 1, 0, 0>>[i]]>>

C10_Installs ==
    /\ Stream.transform # "absent" => Stream'.transform = Stream.transform
    /\ Stream.text_matrix # "absent" =>
          Stream'.text_matrix = Stream.text_matrix
    /\ Stream'.transform # Stream.transform =>
          /\ fn' = "ensure_pydyf_transform"
          /\ Stream'.transform = "_transform"
          /\ Stream'.text_matrix = Stream.text_matrix
    /\ Stream'.text_matrix # Stream.text_matrix =>
          /\ fn' = "ensure_pydyf_text_matrix"
          /\ Stream'.text_matrix = "_text_matrix"
          /\ Stream'.transform = Stream.transform
    /\ (fn' = "ensure_pydyf_transform" /\ Stream.transform = "absent") =>
          Stream'.transform = "_transform"
    /\ (fn' = "ensure_pydyf_text_matrix" /\ Stream.text_matrix = "absent") =>
          Stream'.text_matrix = "_text_matrix"

\* C10: a shim is installed only where the engine lacks the primitive, and
\* then forwards its six arguments in order to set_matrix (set_text_matrix);
\* a primitive the engine has, or a shim once installed, is never replaced,
\* and installing one shim leaves the other attribute as it was.
C10_Shims == []C10_Calls /\ [][C10_Installs]_vars

C10_Witness ==
    /\ Stream = [transform |-> "_transform", text_matrix |-> "absent"]
    /\ fn = "transform"
    /\ input = <<2, 3>>
    /\ ops = << <<"set_matrix", <<2, 3, 0, 1, 0, 0>> >> >>

(***************************************************************************)
(* Claims about the page accumulator                                       *)
(***************************************************************************)
\* The fragments of step k: one per page of its kind's template, in order.
StepFragments(ss, k) ==
    [j \in 1..(IF ss[k].kind = "MiniReview" THEN 1 ELSE 3) |->
        <<"P", ToString(k) \o "." \o ToString(j), "E">>]

\* The fragments of the steps 1..n of ss, in step order.
RECURSIVE FragmentsUpTo(_, _)
FragmentsUpTo(ss, n) ==
    IF n = 0 THEN <<>> ELSE FragmentsUpTo(ss, n - 1) \o StepFragments(ss, n)

\* The last prompt built belongs to a step whose pages are not yet added.
StepOpen ==
    \/ pc \in {"llm", "json", "build", "extract"}
    \/ error \in GenErrors \cup {"Set GITHUB_TOKEN"}

StepsExtended == IF StepOpen THEN Len(steps) - 1 ELSE Len(steps)

C11_Pages ==
    /\ pages = FragmentsUpTo(steps, StepsExtended)
    /\ book_html # <<>> =>
          /\ book_html[1] = "head"
          /\ book_html[Len(book_html)] = "tail"
          /\ SelectSeq(SubSeq(book_html, 2, Len(book_html) - 1),
                       LAMBDA t : t # "\n") = Flatten(pages)
          /\ Cardinality({i \in 1..Len(book_html) : book_html[i] = "P"})
                = Len(pages)
          /\ Cardinality({i \in 1..Len(book_html) :
                             book_html[i] \in {"head", "tail"}}) = 2

C11_Grows ==
    /\ IsPrefix(pages, pages')
    /\ pages' # pages =>
          /\ pc = "extract"
          /\ SubSeq(pages', Len(pages) + 1, Len(pages'))
                = StepFragments(steps, Len(steps))

\* C11: pages only grows, each step adding exactly its own fragments in
\* source order behind the earlier ones, which stay as they were; the
\* assembled book is the fixed shell around every step's fragments in step
\* order, each once.
C11_AppendOnly == []C11_Pages /\ [][C11_Grows]_vars

C11_Witness ==
    /\ pc = "done"
    /\ Len(subjects) = 2
    /\ Len(pages) = 16
    /\ pages[13] = <<"P", "5.1", "E">>
    /\ book_html[Len(book_html) - 1] = "E"

====
